---------------------------- MODULE Spec2Model ----------------------------
(***************************************************************************)
(* ZVEI tone monitor: the decoder (zvei_decoder.py), the per-block step of *)
(* the monitor (zvei_monitor.py) and the stream loop of the receiver       *)
(* (sdr_receiver.py).                                                      *)
(*                                                                         *)
(* What is abstracted: the floating-point signal itself.  A block of IQ    *)
(* samples is its length n together with, for every scan position of the   *)
(* decoder, the frequency of the strongest spectral peak of that window    *)
(* (or NoPeak), i.e. the value detect_tone reads at line 66.  Lengths,     *)
(* scan offsets, time stamps, the tone table lookup, the raw-hit rule, the *)
(* cleaning loop, the length gate and the dedup are computed as the code   *)
(* computes them.  Time stamps are kept as sample offsets i; the code's    *)
(* i / sample_rate is compared against its thresholds in exact arithmetic. *)
(* Characters are one-character strings, a Python str is a sequence of     *)
(* them; None and "" are both the empty sequence (the code only tests      *)
(* their truthiness).  The observability counters (samples_processed,      *)
(* detection_count) and the console output are left out.                   *)
(*                                                                         *)
(* Spec is ZVEIMonitor.run: the stream loop, its SIGINT handler and the     *)
(* per-block callback.  StreamSpec is the same loop under fairness on a    *)
(* smaller set of blocks.  ReplaySpec, ToneSpec and LookupSpec apply the   *)
(* pipeline, resp. the table lookup, to inputs drawn by their initial      *)
(* states.  CHOOSE r \in {F(x) : x \in {e}} : TRUE is F(e) with e evaluated  *)
(* once.                                                                   *)
(***************************************************************************)
EXTENDS Integers, Sequences, FiniteSets, TLC

VARIABLES
    pc,               \* position of ZVEIMonitor.run / SDRReceiver.stream_samples
    running,          \* SDRReceiver.running
    samples,          \* the block read in the current loop iteration
    last_detected,    \* ZVEIDecoder.last_detected
    zvei_code,        \* what decoder.process_samples returned for the last block
    stages,           \* the stages the last per-block step applied, in order
    raw,              \* decoded_sequence of the last decode_sequence call
    cleaned,          \* cleaned of the last _clean_sequence call
    candidate,        \* digits_only of the last block that passed the length gate
    prev_detected,    \* last_detected when the last block was handed over
    last_emitted,     \* the most recent code any call returned
    prev_emitted,     \* last_emitted before the last call
    raised,           \* the last process_samples call took its except branch
    exit_code,        \* what ZVEIMonitor.run returned (NotReturned before)
    read_failed,      \* a read of the IQ source has raised
    stop_seen,        \* the SIGINT handler has run
    calls_after_stop, \* callback invocations begun after the handler ran (2: two or more)
    calls,            \* process_samples calls made (replay specification)
    tones,            \* the tones synthesized so far (tone specification)
    peak_freq,        \* the peak frequency looked up (lookup specification)
    digit             \* what the table lookup returned for peak_freq

vars == << pc, running, samples, last_detected, zvei_code, stages, raw, cleaned,
           candidate,
           prev_detected, last_emitted, prev_emitted, raised, exit_code,
           read_failed, stop_seen, calls_after_stop, calls, tones, peak_freq,
           digit >>

---------------------------------------------------------------------------
(* Bounds of the model *)

\* scan positions of a streamed block (a real 256K block has 29)
ScanPositions == 9
\* longest tone, in scan positions, of the tone specification
MaxRun == 13
\* highest peak frequency of the lookup specification
MaxFreq == 2900

---------------------------------------------------------------------------
(* Program constants *)

TONE_DURATION_MS == 70
TONE_TOLERANCE == 20
audio_sample_rate == 22050
rf_sample_rate == 250000
min_sequence_length == 5
\* the 0.1 s of the raw-hit rule and the 0.05 s of the cleaning pass, in ms
REAPPEND_GAP_MS == 100
CLEAN_GAP_MS == 50

NoPeak == 0
NoTone == << >>
NoCode == << >>
NoBlock == [n |-> 0, peaks |-> << >>]
NotReturned == -1

ZVEI_TONES ==
    << [digit |-> <<"0">>, freq |-> 2400],
       [digit |-> <<"1">>, freq |-> 1060],
       [digit |-> <<"2">>, freq |-> 1160],
       [digit |-> <<"3">>, freq |-> 1270],
       [digit |-> <<"4">>, freq |-> 1400],
       [digit |-> <<"5">>, freq |-> 1530],
       [digit |-> <<"6">>, freq |-> 1670],
       [digit |-> <<"7">>, freq |-> 1830],
       [digit |-> <<"8">>, freq |-> 2000],
       [digit |-> <<"9">>, freq |-> 2200],
       [digit |-> <<"A">>, freq |-> 2800],
       [digit |-> <<"B">>, freq |-> 810],
       [digit |-> <<"C">>, freq |-> 970],
       [digit |-> <<"D">>, freq |-> 885],
       [digit |-> <<"E">>, freq |-> 2600],
       [digit |-> <<"F">>, freq |-> 680],
       [digit |-> <<"R", "E", "P", "E", "A", "T">>, freq |-> 2400] >>

Abs(x) == IF x < 0 THEN -x ELSE x
CeilDiv(a, b) == (a + b - 1) \div b

\* int(self.TONE_DURATION * self.sample_rate) and its half
tone_samples == (TONE_DURATION_MS * audio_sample_rate) \div 1000
hop_size == tone_samples \div 2
decimation_factor == rf_sample_rate \div audio_sample_rate


---------------------------------------------------------------------------
(* ZVEIDecoder *)

\* FirstMatch with the tolerance taken as a strict bound
RECURSIVE FirstMatch_strict(_, _)
FirstMatch_strict(f, k) ==
    IF k > Len(ZVEI_TONES) THEN NoTone
    ELSE IF Abs(f - ZVEI_TONES[k].freq) < TONE_TOLERANCE
         THEN ZVEI_TONES[k].digit
         ELSE FirstMatch_strict(f, k + 1)

\* the loop over ZVEI_TONES.items(): the first entry within tolerance wins
RECURSIVE FirstMatch(_, _)
FirstMatch(f, k) ==
    IF k > Len(ZVEI_TONES) THEN NoTone
    ELSE IF Abs(f - ZVEI_TONES[k].freq) <= TONE_TOLERANCE
         THEN ZVEI_TONES[k].digit
         ELSE FirstMatch(f, k + 1)

\* the lookup done through tone_map (frequency -> symbol, a later table entry
\* replacing an earlier one of the same frequency): the last entry within tolerance
RECURSIVE LastMatch(_, _)
LastMatch(f, k) ==
    IF k < 1 THEN NoTone
    ELSE IF Abs(f - ZVEI_TONES[k].freq) <= TONE_TOLERANCE
         THEN ZVEI_TONES[k].digit
         ELSE LastMatch(f, k - 1)

detect_tone_tone_map(peak) ==
    IF peak = NoPeak THEN NoTone ELSE LastMatch(peak, Len(ZVEI_TONES))

\* detect_tone from its peak on: no peak, or the table lookup of peak_freq
detect_tone(peak) ==
    IF peak = NoPeak THEN NoTone ELSE FirstMatch(peak, 1)

\* peak frequencies a window can show: none, one near 1060 Hz, one near 2400 Hz
Peaks == {NoPeak, 1057, 2401}

\* detect_tone on each of them, evaluated once
Detected == [p \in Peaks |-> detect_tone(p)]

\* number of offsets in range(0, len(audio_data) - tone_samples, hop_size)
ScanCount(audio_len) ==
    IF audio_len - tone_samples <= 0 THEN 0
    ELSE CeilDiv(audio_len - tone_samples, hop_size)

\* timestamp - decoded_sequence[-1][1] > 0.1, timestamps being offset / rate
ReappendGap(i, j) == (i - j) * 1000 > REAPPEND_GAP_MS * audio_sample_rate

\* sequence[i + 1][1] - timestamp < 0.05
CleanGap(i, j) == (j - i) * 1000 < CLEAN_GAP_MS * audio_sample_rate

\* the condition under which decode_sequence appends a hit
AppendsHit(decoded, d, i) ==
    \/ decoded = << >>
    \/ decoded[Len(decoded)].digit # d
    \/ ReappendGap(i, decoded[Len(decoded)].i)

\* one scan position: the hit (d, i / rate) is appended to decoded, or not
\* (decoded is evaluated once, and the rule applied to its value)
ScanStep(decoded, d, i) ==
    CHOOSE next \in {IF d # NoTone /\ AppendsHit(seq, d, i)
                     THEN Append(seq, [digit |-> d, i |-> i])
                     ELSE seq : seq \in {decoded}} : TRUE

\* the scan loop of decode_sequence, from scan position k (0-based) on
RECURSIVE ScanLoop(_, _, _, _)
ScanLoop(peaks, k, count, decoded) ==
    IF k >= count THEN decoded
    ELSE ScanLoop(peaks, k + 1, count,
                  ScanStep(decoded,
                           Detected[IF k + 1 <= Len(peaks) THEN peaks[k + 1] ELSE NoPeak],
                           k * hop_size))

\* a cleaning loop that keeps the first of two close hits and skips the second
RECURSIVE CleanLoop_drop_second(_, _, _)
CleanLoop_drop_second(sequence, i, acc) ==
    IF i > Len(sequence) THEN acc
    ELSE IF i + 1 <= Len(sequence) /\ CleanGap(sequence[i].i, sequence[i + 1].i)
         THEN CleanLoop_drop_second(sequence, i + 2, Append(acc, sequence[i]))
         ELSE CleanLoop_drop_second(sequence, i + 1, Append(acc, sequence[i]))

\* the while loop of _clean_sequence, from index i (1-based) on
RECURSIVE CleanLoop(_, _, _)
CleanLoop(sequence, i, acc) ==
    IF i > Len(sequence) THEN acc
    ELSE IF i + 1 <= Len(sequence) /\ CleanGap(sequence[i].i, sequence[i + 1].i)
         THEN CleanLoop(sequence, i + 1, acc)
         ELSE CleanLoop(sequence, i + 1, Append(acc, sequence[i]))

\* ''.join([d for d, _ in hits])
RECURSIVE Join(_)
Join(hits) ==
    IF hits = << >> THEN << >> ELSE hits[1].digit \o Join(Tail(hits))

\* a gate without the comparison against last_detected
Emits_no_dedup(digits_only, last) == TRUE

\* whether _clean_sequence returns the cleaned hits (and records their string)
Emits(digits_only, last) == digits_only # last

\* the end of _clean_sequence without the assignment to last_detected
clean_outcome_no_record(c, last) ==
    IF Len(c) >= min_sequence_length /\ Emits(Join(c), last)
    THEN [cleaned |-> c, gated |-> TRUE, result |-> c, last |-> last]
    ELSE [cleaned |-> c, gated |-> Len(c) >= min_sequence_length,
          result |-> << >>, last |-> last]

\* the end of _clean_sequence: the length gate and the dedup on the cleaned hits c
clean_outcome(c, last) ==
    IF Len(c) >= min_sequence_length /\ Emits(Join(c), last)
    THEN [cleaned |-> c, gated |-> TRUE, result |-> c, last |-> Join(c)]
    ELSE [cleaned |-> c, gated |-> Len(c) >= min_sequence_length,
          result |-> << >>, last |-> last]

\* _clean_sequence: the cleaned hits, what it returns, and last_detected after it
clean_sequence(sequence, last) ==
    CHOOSE r \in {clean_outcome(c, last) : c \in {CleanLoop(sequence, 1, << >>)}} : TRUE

\* decode_sequence, once the scan has collected decoded
decode_outcome(decoded, last) ==
    [raw |-> decoded] @@ clean_sequence(decoded, last)

\* decode_sequence
decode_sequence(audio_len, peaks, last) ==
    CHOOSE r \in {decode_outcome(decoded, last) :
                      decoded \in {ScanLoop(peaks, 0, ScanCount(audio_len), << >>)}} : TRUE

\* demodulate_fm raises on an empty input (hilbert), else np.diff drops a sample
DemodRaises(len) == len = 0
DemodLen(len) == len - 1

\* an except branch that resets the decoder
AfterException_reset(last) == << >>

\* last_detected after a call that took the except branch
AfterException(last) == last

\* the stages ZVEIDecoder.process_samples applies to its len samples, in order
DecoderStages(len) ==
    << [stage |-> "demodulate_fm", len |-> len],
       [stage |-> "decode_sequence", len |-> DemodLen(len)] >>

\* process_samples, once decode_sequence has returned r
process_outcome(r, len) ==
    [code |-> Join(r.result), last |-> r.last, raised |-> FALSE, raw |-> r.raw,
     cleaned |-> r.cleaned, gated |-> r.gated, stages |-> DecoderStages(len)]

\* ZVEIDecoder.process_samples on len real samples with the given peaks
process_samples(len, peaks, last) ==
    IF DemodRaises(len)
    THEN [code |-> NoCode, last |-> AfterException(last), raised |-> TRUE,
          raw |-> << >>, cleaned |-> << >>, gated |-> FALSE,
          stages |-> << [stage |-> "demodulate_fm", len |-> len] >>]
    ELSE process_outcome(decode_sequence(DemodLen(len), peaks, last), len)

---------------------------------------------------------------------------
(* ZVEIMonitor.process_samples: samples[::decimation_factor], then the decoder *)

DecimatedLen(n) ==
    IF decimation_factor > 1 THEN CeilDiv(n, decimation_factor) ELSE n

\* the decoder's result with the decimation put in front of its stages
after_decimation(r, n) ==
    [r EXCEPT !.stages = << [stage |-> "decimate", len |-> n] >> \o @]

\* the per-block step with the demodulation (at the RF rate) before the decimation
monitor_demodulate_first(block, last) ==
    IF DemodRaises(block.n)
    THEN [code |-> NoCode, last |-> last, raised |-> TRUE,
          raw |-> << >>, cleaned |-> << >>, gated |-> FALSE,
          stages |-> << [stage |-> "demodulate_fm", len |-> block.n] >>]
    ELSE [process_outcome(decode_sequence(DecimatedLen(DemodLen(block.n)),
                                          block.peaks, last), block.n)
              EXCEPT !.stages =
                  << [stage |-> "demodulate_fm", len |-> block.n],
                     [stage |-> "decimate", len |-> DemodLen(block.n)],
                     [stage |-> "decode_sequence",
                      len |-> DecimatedLen(DemodLen(block.n))] >>]

monitor_process_samples(block, last) ==
    after_decimation(process_samples(DecimatedLen(block.n), block.peaks, last), block.n)

---------------------------------------------------------------------------
(* Inputs *)

\* the IQ length whose audio has exactly p scan positions
NSamplesFor(p) ==
    decimation_factor * (tone_samples + (IF p = 0 THEN 0 ELSE (p - 1) * hop_size + 1) + 1)

BlockOf(peaks) == [n |-> NSamplesFor(Len(peaks)), peaks |-> peaks]

\* a read that delivered no samples
EmptyBlock == [n |-> 0, peaks |-> << >>]

ToneFreqs == Peaks \ {NoPeak}

RECURSIVE Repeat(_, _)
Repeat(x, k) == IF k = 0 THEN << >> ELSE << x >> \o Repeat(x, k - 1)

\* every full-size block, and the empty one
AllBlocks == {BlockOf(p) : p \in [1..ScanPositions -> Peaks]} \cup {EmptyBlock}

\* a transmission: tones at consecutive scan positions
Transmissions == UNION {[1..len -> ToneFreqs] : len \in 0..ScanPositions}

\* a transmission that starts at scan position a of an otherwise silent block
Framed(t, a) ==
    Repeat(NoPeak, a) \o t \o Repeat(NoPeak, ScanPositions - Len(t) - a)

\* the blocks a read of the stream delivers: full-size blocks that hold one
\* transmission in silence, and the empty one
Blocks ==
    UNION {{BlockOf(Framed(t, a)) : a \in 0..(ScanPositions - Len(t))} :
               t \in Transmissions} \cup {EmptyBlock}

---------------------------------------------------------------------------
(* ZVEIMonitor.run and SDRReceiver.stream_samples *)

Idle ==
    /\ raw = << >> /\ cleaned = << >>
    /\ calls = 0 /\ tones = << >> /\ peak_freq = 0 /\ digit = NoTone

Fresh ==
    /\ last_detected = << >> /\ zvei_code = NoCode /\ stages = << >>
    /\ candidate = << >> /\ prev_detected = << >>
    /\ last_emitted = << >> /\ prev_emitted = << >> /\ raised = FALSE

Init ==
    /\ pc = "start" /\ running = FALSE /\ samples = NoBlock
    /\ exit_code = NotReturned /\ read_failed = FALSE
    /\ stop_seen = FALSE /\ calls_after_stop = 0
    /\ Fresh /\ Idle

decoder_vars == << last_detected, zvei_code, stages, candidate, prev_detected,
                   last_emitted, prev_emitted, raised >>
side_vars == << raw, cleaned, calls, tones, peak_freq, digit >>

\* run: receiver.initialize() fails, and run returns 1
InitializeFails ==
    /\ pc = "start"
    /\ pc' = "done" /\ exit_code' = 1
    /\ UNCHANGED << running, samples, read_failed, stop_seen, calls_after_stop >>
    /\ UNCHANGED decoder_vars /\ UNCHANGED side_vars

\* run: receiver.initialize() succeeds; stream_samples sets running and
\* installs the SIGINT handler
StartStream ==
    /\ pc = "start"
    /\ pc' = "test" /\ running' = TRUE
    /\ UNCHANGED << samples, exit_code, read_failed, stop_seen, calls_after_stop >>
    /\ UNCHANGED decoder_vars /\ UNCHANGED side_vars

\* a loop that never looks at the flag
LoopContinues_always(flag) == TRUE

\* what the loop does once the flag is read
LoopContinues(flag) == flag

\* while self.running: the loop goes on, or ends and run returns 0
LoopTest ==
    /\ pc = "test"
    /\ IF LoopContinues(running)
       THEN pc' = "read" /\ UNCHANGED exit_code
       ELSE pc' = "done" /\ exit_code' = 0
    /\ UNCHANGED << running, samples, read_failed, stop_seen, calls_after_stop >>
    /\ UNCHANGED decoder_vars /\ UNCHANGED side_vars

\* samples = self.read_samples(num_samples) returns a block, one of B
ReadFrom(B) ==
    /\ pc = "read"
    /\ \E b \in B : samples' = b
    /\ pc' = "callback"
    /\ UNCHANGED << running, exit_code, read_failed, stop_seen, calls_after_stop >>
    /\ UNCHANGED decoder_vars /\ UNCHANGED side_vars

ReadSamples == ReadFrom(Blocks)

\* what run returns after stream_samples caught an exception and broke out
ExitAfterStreamError == 0

\* read_samples raises: except logs, break; stream_samples returns, run returns
ReadFails ==
    /\ pc = "read"
    /\ read_failed' = TRUE
    /\ pc' = "done" /\ exit_code' = ExitAfterStreamError
    /\ UNCHANGED << running, samples, stop_seen, calls_after_stop >>
    /\ UNCHANGED decoder_vars /\ UNCHANGED side_vars

\* callback(samples): ZVEIMonitor.process_samples on the block read; when a code
\* is returned it is logged, and a failing log_detection ends the loop
Callback ==
    /\ pc = "callback"
    /\ \E r \in {monitor_process_samples(samples, last_detected)} :
           /\ last_detected' = r.last
           /\ zvei_code' = r.code
           /\ stages' = r.stages
           /\ raised' = r.raised
           /\ candidate' = IF r.gated THEN Join(r.cleaned) ELSE << >>
           /\ prev_detected' = last_detected
           /\ prev_emitted' = last_emitted
           /\ last_emitted' = IF r.code # NoCode THEN r.code ELSE last_emitted
           /\ \/ pc' = "test" /\ UNCHANGED exit_code
              \/ r.code # NoCode /\ pc' = "done" /\ exit_code' = ExitAfterStreamError
    /\ samples' = NoBlock
    /\ calls_after_stop' = IF stop_seen /\ calls_after_stop < 2
                          THEN calls_after_stop + 1 ELSE calls_after_stop
    /\ UNCHANGED << running, read_failed, stop_seen >>
    /\ UNCHANGED side_vars

\* the SIGINT handler of stream_samples
SignalHandler ==
    /\ pc \in {"test", "read", "callback"}
    /\ running
    /\ running' = FALSE /\ stop_seen' = TRUE
    /\ UNCHANGED << pc, samples, exit_code, read_failed, calls_after_stop >>
    /\ UNCHANGED decoder_vars /\ UNCHANGED side_vars

Next ==
    \/ InitializeFails
    \/ StartStream
    \/ LoopTest
    \/ ReadSamples
    \/ ReadFails
    \/ Callback
    \/ SignalHandler

Spec == Init /\ [][Next]_vars

---------------------------------------------------------------------------
(* The stream loop under fairness, reading blocks of two peaks in turn, each *)
(* held for one or for two scan positions (silence, one tone held, two tones *)
(* alternating), and the empty block                                         *)

HoldFor(h, a, b) ==
    BlockOf([k \in 1..ScanPositions |-> IF ((k - 1) \div h) % 2 = 0 THEN a ELSE b])

PatternBlocks ==
    {HoldFor(h, a, b) : h \in {1, 2}, a \in Peaks, b \in Peaks} \cup {EmptyBlock}

ReadPattern == ReadFrom(PatternBlocks)

StreamNext ==
    \/ InitializeFails
    \/ StartStream
    \/ LoopTest
    \/ ReadPattern
    \/ ReadFails
    \/ Callback
    \/ SignalHandler

\* a pending read returns or raises, and the main thread keeps running
StreamSpec ==
    /\ Init /\ [][StreamNext]_vars
    /\ WF_vars(LoopTest)
    /\ WF_vars(ReadPattern \/ ReadFails)
    /\ WF_vars(Callback)

---------------------------------------------------------------------------
(* Replay: one pipeline, fresh, is handed the same block twice *)

stream_vars == << pc, running, exit_code, read_failed, stop_seen, calls_after_stop >>

ReplayInit ==
    /\ pc = "replay" /\ running = FALSE /\ samples \in AllBlocks
    /\ exit_code = NotReturned /\ read_failed = FALSE
    /\ stop_seen = FALSE /\ calls_after_stop = 0
    /\ Fresh /\ Idle

\* ZVEIMonitor.process_samples(samples), its locals raw and cleaned recorded
ProcessBlock ==
    /\ pc = "replay"
    /\ calls < 2
    /\ \E r \in {monitor_process_samples(samples, last_detected)} :
           /\ last_detected' = r.last
           /\ zvei_code' = r.code
           /\ stages' = r.stages
           /\ raised' = r.raised
           /\ raw' = r.raw
           /\ cleaned' = r.cleaned
           /\ candidate' = IF r.gated THEN Join(r.cleaned) ELSE << >>
           /\ prev_detected' = last_detected
           /\ prev_emitted' = last_emitted
           /\ last_emitted' = IF r.code # NoCode THEN r.code ELSE last_emitted
    /\ calls' = calls + 1
    /\ UNCHANGED << samples, tones, peak_freq, digit >>
    /\ UNCHANGED stream_vars

ReplayNext == ProcessBlock

ReplaySpec == ReplayInit /\ [][ReplayNext]_vars

---------------------------------------------------------------------------
(* Tones: an audio of fewer than min_sequence_length tones, each held for a *)
(* number of scan positions, is synthesized and handed to a fresh pipeline  *)

\* the peak of every scan position of the audio made of the given tones
RECURSIVE PeaksOf(_)
PeaksOf(ts) ==
    IF ts = << >> THEN << >> ELSE Repeat(ts[1].freq, ts[1].len) \o PeaksOf(Tail(ts))

ToneInit ==
    /\ pc = "synth" /\ running = FALSE /\ samples = NoBlock
    /\ exit_code = NotReturned /\ read_failed = FALSE
    /\ stop_seen = FALSE /\ calls_after_stop = 0
    /\ Fresh /\ Idle

\* one more tone, different from the one before it
AddTone ==
    /\ pc = "synth"
    /\ Len(tones) < min_sequence_length - 1
    /\ \E f \in ToneFreqs, len \in 1..MaxRun :
           /\ IF tones = << >> THEN TRUE ELSE tones[Len(tones)].freq # f
           /\ tones' = Append(tones, [freq |-> f, len |-> len])
    /\ UNCHANGED << pc, samples, raw, cleaned, calls, peak_freq, digit >>
    /\ UNCHANGED decoder_vars
    /\ UNCHANGED << running, exit_code, read_failed, stop_seen, calls_after_stop >>

\* the audio is handed to the pipeline
DecodeTones ==
    /\ pc = "synth"
    /\ tones # << >>
    /\ pc' = "decoded"
    /\ samples' = BlockOf(PeaksOf(tones))
    /\ \E r \in {monitor_process_samples(BlockOf(PeaksOf(tones)), last_detected)} :
           /\ last_detected' = r.last
           /\ zvei_code' = r.code
           /\ stages' = r.stages
           /\ raised' = r.raised
           /\ raw' = r.raw
           /\ cleaned' = r.cleaned
           /\ candidate' = IF r.gated THEN Join(r.cleaned) ELSE << >>
           /\ prev_detected' = last_detected
           /\ prev_emitted' = last_emitted
           /\ last_emitted' = IF r.code # NoCode THEN r.code ELSE last_emitted
    /\ calls' = calls + 1
    /\ UNCHANGED << tones, peak_freq, digit >>
    /\ UNCHANGED << running, exit_code, read_failed, stop_seen, calls_after_stop >>

ToneNext == AddTone \/ DecodeTones

ToneSpec == ToneInit /\ [][ToneNext]_vars

---------------------------------------------------------------------------
(* Lookup: detect_tone's table lookup on every integer peak frequency *)

LookupInit ==
    /\ pc = "lookup" /\ running = FALSE /\ samples = NoBlock
    /\ exit_code = NotReturned /\ read_failed = FALSE
    /\ stop_seen = FALSE /\ calls_after_stop = 0
    /\ Fresh
    /\ raw = << >> /\ cleaned = << >> /\ calls = 0 /\ tones = << >>
    /\ peak_freq \in 1..MaxFreq /\ digit = NoTone

Lookup ==
    /\ pc = "lookup"
    /\ calls = 0
    /\ digit' = detect_tone(peak_freq)
    /\ calls' = 1
    /\ UNCHANGED << samples, raw, cleaned, tones, peak_freq >>
    /\ UNCHANGED decoder_vars /\ UNCHANGED stream_vars

LookupNext == Lookup

LookupSpec == LookupInit /\ [][LookupNext]_vars

---------------------------------------------------------------------------
(* Properties *)

Alphabet == {"0", "1", "2", "3", "4", "5", "6", "7", "8", "9",
             "A", "B", "C", "D", "E", "F"}

Chars(str) == {str[k] : k \in 1..Len(str)}

StageNames(st) == [k \in 1..Len(st) |-> st[k].stage]

\* C1: a block whose cleaned hits number at least min_sequence_length and spell
\* S (candidate) yields the code S exactly when S differs from last_detected as
\* it was when the block came in, and last_detected becomes S; any other block
\* yields nothing and leaves last_detected as it was.  last_detected is always
\* the most recently returned code, and no returned code equals the one returned
\* before it.
C1_Dedup ==
    /\ (zvei_code # NoCode) <=> (candidate # << >> /\ candidate # prev_detected)
    /\ zvei_code # NoCode => zvei_code = candidate /\ last_detected = candidate
    /\ zvei_code = NoCode => last_detected = prev_detected
    /\ last_detected = last_emitted
    /\ zvei_code # NoCode => zvei_code # prev_emitted

\* a block spelling the code already recorded was suppressed
C1_Witness ==
    /\ candidate # << >> /\ candidate = prev_detected
    /\ zvei_code = NoCode /\ last_emitted = candidate

\* C2: a fresh pipeline handed the same block twice returns nothing the second
\* time.
C2_IdempotentReplay == (pc = "replay" /\ calls = 2) => zvei_code = NoCode

\* the block's code was returned by the first call and not by the second
C2_Witness ==
    /\ pc = "replay" /\ calls = 2
    /\ last_emitted # << >> /\ candidate = last_emitted /\ zvei_code = NoCode

\* C3: an audio of fewer than min_sequence_length tones, whatever their
\* durations, yields no code.
C3_MinimumLength == pc = "decoded" => zvei_code = NoCode

\* C4: every returned code is a non-empty string over 0-9, A-F; a peak within
\* tolerance of 2400 Hz is read as "0".
C4_AlphabetClosure ==
    /\ zvei_code # NoCode => Len(zvei_code) >= 1 /\ Chars(zvei_code) \subseteq Alphabet
    /\ \A p \in Peaks : Abs(p - 2400) <= TONE_TOLERANCE => Detected[p] = << "0" >>

\* a code with a 2400 Hz tone in it was returned
C4_Witness == zvei_code # NoCode /\ "0" \in Chars(zvei_code)

\* C5: a call that raised returns no code and leaves last_detected as it was,
\* so that the blocks after it are decoded as if it had not been seen.
C5_FailureContainment ==
    raised => /\ zvei_code = NoCode
              /\ last_detected = prev_detected
              /\ last_emitted = prev_emitted

\* a call raised after a code had been recorded
C5_Witness == raised /\ last_detected # << >> /\ pc = "test"

\* C6: a failed read is not retried, no block is handed to the callback after
\* it, and the caller is told: run does not return the exit code of a normal stop.
C6_UpstreamFailureSurfaced ==
    read_failed => pc = "done" /\ exit_code # NotReturned /\ exit_code # 0

\* C7 as claimed: the callback is not invoked for any block once the handler
\* has run.
C7_NoCallbackAfterSignal == calls_after_stop = 0

\* C7, amended: once the handler has run the callback is invoked for at most
\* one more block (the one whose loop test had already passed), and the loop
\* ends, given that the pending read returns or raises.
C7_Cancellation ==
    /\ [](calls_after_stop <= 1)
    /\ stop_seen ~> (pc = "done")

\* the handler ran while a read was pending, and that block was still processed
C7_Witness == stop_seen /\ calls_after_stop = 1 /\ pc = "done" /\ ~read_failed

Close(a, b) == (b.i - a.i) * 1000 < CLEAN_GAP_MS * audio_sample_rate

\* the k-th smallest element of a set of integers
Kth(I, k) == CHOOSE i \in I : Cardinality({j \in I : j <= i}) = k

Pick(seq, I) == [k \in 1..Cardinality(I) |-> seq[Kth(I, k)]]

\* the hits that are not followed, in the raw sequence, by a hit less than 0.05 s later
NextIsFar(seq) ==
    {k \in 1..Len(seq) : k = Len(seq) \/ ~Close(seq[k], seq[k + 1])}

\* the hits that do not follow, in the raw sequence, a hit less than 0.05 s earlier
PreviousIsFar(seq) ==
    {k \in 1..Len(seq) : k = 1 \/ ~Close(seq[k - 1], seq[k])}

\* C8 as claimed: of two consecutive raw hits less than 0.05 s apart the second
\* is dropped and the first kept; all other hits are kept, in order.
C8_DropsSecond ==
    (pc = "replay" /\ calls >= 1) => cleaned = Pick(raw, PreviousIsFar(raw))

\* C8, amended: of two consecutive raw hits less than 0.05 s apart the first is
\* dropped; a hit is kept exactly when it is the last raw hit or the raw hit
\* after it is at least 0.05 s later, and the kept hits keep their order.
C8_DropsFirst ==
    (pc = "replay" /\ calls >= 1) => cleaned = Pick(raw, NextIsFar(raw))

\* two raw hits of a block were less than 0.05 s apart
C8_Witness ==
    /\ pc = "replay" /\ calls >= 1
    /\ \E k \in 1..(Len(raw) - 1) : Close(raw[k], raw[k + 1])
    /\ Len(cleaned) >= 2 /\ Len(cleaned) < Len(raw)

Near(f) == {k \in 1..Len(ZVEI_TONES) : Abs(f - ZVEI_TONES[k].freq) <= TONE_TOLERANCE}

TableFreqsNear(f) == {ZVEI_TONES[k].freq : k \in Near(f)}

\* the entry within tolerance of least absolute error, the earlier one on a tie
Closest(f) ==
    CHOOSE k \in Near(f) :
        \A j \in Near(f) :
            \/ Abs(f - ZVEI_TONES[k].freq) < Abs(f - ZVEI_TONES[j].freq)
            \/ Abs(f - ZVEI_TONES[k].freq) = Abs(f - ZVEI_TONES[j].freq) /\ k <= j

\* C10: at most one table frequency lies within tolerance of a peak frequency;
\* the lookup returns its symbol, or no tone when there is none, which is also
\* the symbol of least absolute error, ties broken by table order.
C10_TableLookup ==
    (pc = "lookup" /\ calls = 1) =>
        /\ Cardinality(TableFreqsNear(peak_freq)) <= 1
        /\ digit = IF Near(peak_freq) = {} THEN NoTone
                   ELSE ZVEI_TONES[Closest(peak_freq)].digit

\* a peak at the edge of the tolerance of 2400 Hz, shared by "0" and REPEAT
C10_Witness ==
    pc = "lookup" /\ calls = 1 /\ peak_freq = 2400 + TONE_TOLERANCE /\ digit = << "0" >>

=============================================================================
